---- MODULE Spec2Model ----
(***************************************************************************)
(* Model of the bootstrap orchestration that openmrs_ecs_stack.py sets up: *)
(*   - the shell command of the TLS generation job, run by one or more job *)
(*     executions against the shared TLS volume (SpecTls);                 *)
(*   - the provisioning graph, the one-time triggers, the recurring        *)
(*     schedule and the invocations they start on the Job Runner (Spec).   *)
(***************************************************************************)
EXTENDS Integers, Naturals, Sequences, FiniteSets, TLC

(***************************************************************************)
(* Part 1: the TLS generation job on the TLS volume                        *)
(***************************************************************************)

\* Number of job executions of the TLS generation task that are modelled.
MaxRuns == 2

RunIds == 1..MaxRuns

\* Generation that installed the set found on a volume that was filled
\* before the modelled runs.
PrevGen == MaxRuns + 1

\* Final names, read by the service (gateway nginx, backend JDBC client).
FinalFiles == {"cert.pem", "privkey.pem", "mysql.pem"}

\* Temporary names used by the command.
TmpFiles == {"selfsigned.key.pem.tmp", "selfsigned.cert.pem.tmp", "mysqltmp.pem"}

Files == FinalFiles \cup TmpFiles

\* Content of a file: the run (generation) that wrote it, the key it holds
\* or was signed with, and whether the content is complete.
Absent == [gen |-> -1, key |-> -1, ok |-> FALSE]

KeyOf(r) == [gen |-> r, key |-> r, ok |-> TRUE]

CertOf(r, k) == [gen |-> r, key |-> k, ok |-> TRUE]

BundleOf(r) == [gen |-> r, key |-> -1, ok |-> TRUE]

\* A file that was opened for writing by run r and not completed.
Truncated(r) == [gen |-> r, key |-> -1, ok |-> FALSE]

\* Positions of one execution in the "&&" chain of the command.
Steps == <<"apk", "genrsa", "req", "curl", "mv_cert", "mv_key", "mv_mysql">>

Ended == {"done", "failed"}

Active == {Steps[i] : i \in 1..Len(Steps)}

VARIABLES vol, run, before, lastMv

tlsVars == <<vol, run, before, lastMv>>

\* State of the provisioning run, of the function invocations and of the job
\* executions on the cluster (Part 2).
VARIABLES res, prov, inv, job, nextJob, now, sched, invoked

sysVars == <<res, prov, inv, job, nextJob, now, sched, invoked>>

\* ---- variables of parts 3 and later ----

\* Data volume, executions of the seed job and of the EFS to S3 sync job (Part 3).
VARIABLES dataVol, seedRun, afterFirst, initialVol, syncRun

seedVars == <<dataVol, seedRun, afterFirst, initialVol, syncRun>>

\* Part not exercised by the specification at hand.
IdleSeed ==
    /\ dataVol = <<>>
    /\ seedRun = <<>>
    /\ afterFirst = <<>>
    /\ initialVol = <<>>
    /\ syncRun = <<>>

\* Receipt rule sets of the mail service, the two SMTP secret entries and received mail (Part 4).
VARIABLES ruleSets, activeRuleSet, lastCall, secretAccessKey, smtpSecret, smtpWrites, serviceRead, forwardingAddress, received

mailVars == <<ruleSets, activeRuleSet, lastCall, secretAccessKey, smtpSecret, smtpWrites, serviceRead, forwardingAddress, received>>

\* Part not exercised by the specification at hand.
IdleMail ==
    /\ ruleSets = <<>>
    /\ activeRuleSet = <<>>
    /\ lastCall = <<>>
    /\ secretAccessKey = <<>>
    /\ smtpSecret = <<>>
    /\ smtpWrites = <<>>
    /\ serviceRead = <<>>
    /\ forwardingAddress = <<>>
    /\ received = <<>>

\* Requests to the two export functions (Part 5).
VARIABLES req

exportVars == <<req>>

\* Part not exercised by the specification at hand.
IdleExport ==
    /\ req = <<>>

\* Construction of the stack by __init__ (Part 6).
VARIABLES flags, pc, handles, raised, params, passed, cfg

buildVars == <<flags, pc, handles, raised, params, passed, cfg>>

\* Part not exercised by the specification at hand.
IdleBuild ==
    /\ flags = <<>>
    /\ pc = <<>>
    /\ handles = <<>>
    /\ raised = <<>>
    /\ params = <<>>
    /\ passed = <<>>
    /\ cfg = <<>>

\* Age of the installed certificate over the days of operation (Part 7).
VARIABLES day, certDay, failStreak, nextRefresh

expiryVars == <<day, certDay, failStreak, nextRefresh>>

\* Part not exercised by the specification at hand.
IdleExpiry ==
    /\ day = <<>>
    /\ certDay = <<>>
    /\ failStreak = <<>>
    /\ nextRefresh = <<>>

\* Containers of the tasks of the OpenMRS service (Part 8).
VARIABLES cont, started, healthyAtStart

taskVars == <<cont, started, healthyAtStart>>

\* Part not exercised by the specification at hand.
IdleTask ==
    /\ cont = <<>>
    /\ started = <<>>
    /\ healthyAtStart = <<>>

extVars == <<seedVars, mailVars, exportVars, buildVars, expiryVars, taskVars>>

notSeedVars == <<tlsVars, sysVars, mailVars, exportVars, buildVars, expiryVars, taskVars>>

notMailVars == <<tlsVars, sysVars, seedVars, exportVars, buildVars, expiryVars, taskVars>>

notExportVars == <<tlsVars, sysVars, seedVars, mailVars, buildVars, expiryVars, taskVars>>

notBuildVars == <<tlsVars, sysVars, seedVars, mailVars, exportVars, expiryVars, taskVars>>

notExpiryVars == <<tlsVars, sysVars, seedVars, mailVars, exportVars, buildVars, taskVars>>

notTaskVars == <<tlsVars, sysVars, seedVars, mailVars, exportVars, buildVars, expiryVars>>

IdleExt ==
    /\ IdleSeed
    /\ IdleMail
    /\ IdleExport
    /\ IdleBuild
    /\ IdleExpiry
    /\ IdleTask

IdleExceptSeed ==
    /\ IdleMail
    /\ IdleExport
    /\ IdleBuild
    /\ IdleExpiry
    /\ IdleTask

IdleExceptMail ==
    /\ IdleSeed
    /\ IdleExport
    /\ IdleBuild
    /\ IdleExpiry
    /\ IdleTask

IdleExceptExport ==
    /\ IdleSeed
    /\ IdleMail
    /\ IdleBuild
    /\ IdleExpiry
    /\ IdleTask

IdleExceptBuild ==
    /\ IdleSeed
    /\ IdleMail
    /\ IdleExport
    /\ IdleExpiry
    /\ IdleTask

IdleExceptExpiry ==
    /\ IdleSeed
    /\ IdleMail
    /\ IdleExport
    /\ IdleBuild
    /\ IdleTask

IdleExceptTask ==
    /\ IdleSeed
    /\ IdleMail
    /\ IdleExport
    /\ IdleBuild
    /\ IdleExpiry

vars == <<tlsVars, sysVars, extVars>>

\* ---- end of the variables of parts 3 and later ----

Finals(v) == [f \in FinalFiles |-> v[f]]

EmptyVolume == [f \in Files |-> Absent]

\* A volume on which an earlier execution installed a complete set.
SeededVolume ==
    [f \in Files |->
        CASE f = "cert.pem" -> CertOf(PrevGen, PrevGen)
          [] f = "privkey.pem" -> KeyOf(PrevGen)
          [] f = "mysql.pem" -> BundleOf(PrevGen)
          [] OTHER -> Absent]

\* mv src dst: rename(2) replaces dst in one step; fails when src is missing.
MvOk(v, src) == v[src] # Absent

MvSwappedArguments(v, src, dst) == [v EXCEPT ![src] = v[dst], ![dst] = Absent]

\* rename(2): the destination name is replaced, the source name is gone.
Mv(v, src, dst) == [v EXCEPT ![dst] = v[src], ![src] = Absent]

NextPc(p) ==
    CASE p = "apk" -> "genrsa"
      [] p = "genrsa" -> "req"
      [] p = "req" -> "curl"
      [] p = "curl" -> "mv_cert"
      [] p = "mv_cert" -> "mv_key"
      [] p = "mv_key" -> "mv_mysql"
      [] p = "mv_mysql" -> "done"
      [] OTHER -> p

Advance(r) == run' = [run EXCEPT ![r].pc = NextPc(run[r].pc)]

\* A command of the chain exits non-zero for a reason of its own (a missing
\* input): "&&" skips the rest and the shell exits non-zero.
Abort(r) == run' = [run EXCEPT ![r].pc = "failed"]

\* The Job Runner starts an execution of the task; runs are numbered in the
\* order they start.
StartRun(r) ==
    /\ run[r].pc = "idle"
    /\ \A q \in RunIds : q < r => run[q].pc # "idle"
    /\ run' = [run EXCEPT ![r].pc = "apk"]
    /\ before' = [before EXCEPT ![r] = Finals(vol)]
    /\ UNCHANGED <<vol, lastMv, sysVars, extVars>>

\* apk add openssl --no-check-certificate --no-cache && cd /etc/ssl/certs/
Apk(r) ==
    /\ run[r].pc = "apk"
    /\ Advance(r)
    /\ UNCHANGED <<vol, before, lastMv, sysVars, extVars>>

\* openssl genrsa 2048 > /etc/ssl/certs/selfsigned.key.pem.tmp
GenRsa(r) ==
    /\ run[r].pc = "genrsa"
    /\ vol' = [vol EXCEPT !["selfsigned.key.pem.tmp"] = KeyOf(r)]
    /\ Advance(r)
    /\ UNCHANGED <<before, lastMv, sysVars, extVars>>

\* openssl req -new -x509 ... -key selfsigned.key.pem.tmp -out selfsigned.cert.pem.tmp
Req(r) ==
    /\ run[r].pc = "req"
    /\ IF vol["selfsigned.key.pem.tmp"].ok
         THEN /\ vol' = [vol EXCEPT !["selfsigned.cert.pem.tmp"] =
                            CertOf(r, vol["selfsigned.key.pem.tmp"].key)]
              /\ Advance(r)
         ELSE /\ Abort(r)
              /\ UNCHANGED vol
    /\ UNCHANGED <<before, lastMv, sysVars, extVars>>

\* curl -k -o /etc/ssl/certs/mysqltmp.pem https://truststore.pki.rds.amazonaws.com/...
Curl(r) ==
    /\ run[r].pc = "curl"
    /\ vol' = [vol EXCEPT !["mysqltmp.pem"] = BundleOf(r)]
    /\ Advance(r)
    /\ UNCHANGED <<before, lastMv, sysVars, extVars>>

\* mv selfsigned.cert.pem.tmp cert.pem
MvCert(r) ==
    /\ run[r].pc = "mv_cert"
    /\ IF MvOk(vol, "selfsigned.cert.pem.tmp")
         THEN /\ vol' = Mv(vol, "selfsigned.cert.pem.tmp", "cert.pem")
              /\ lastMv' = [lastMv EXCEPT !["cert.pem"] = r]
              /\ Advance(r)
         ELSE /\ Abort(r)
              /\ UNCHANGED <<vol, lastMv>>
    /\ UNCHANGED <<before, sysVars, extVars>>

\* mv selfsigned.key.pem.tmp privkey.pem
MvKey(r) ==
    /\ run[r].pc = "mv_key"
    /\ IF MvOk(vol, "selfsigned.key.pem.tmp")
         THEN /\ vol' = Mv(vol, "selfsigned.key.pem.tmp", "privkey.pem")
              /\ lastMv' = [lastMv EXCEPT !["privkey.pem"] = r]
              /\ Advance(r)
         ELSE /\ Abort(r)
              /\ UNCHANGED <<vol, lastMv>>
    /\ UNCHANGED <<before, sysVars, extVars>>

\* mv mysqltmp.pem mysql.pem
MvMysql(r) ==
    /\ run[r].pc = "mv_mysql"
    /\ IF MvOk(vol, "mysqltmp.pem")
         THEN /\ vol' = Mv(vol, "mysqltmp.pem", "mysql.pem")
              /\ lastMv' = [lastMv EXCEPT !["mysql.pem"] = r]
              /\ Advance(r)
         ELSE /\ Abort(r)
              /\ UNCHANGED <<vol, lastMv>>
    /\ UNCHANGED <<before, sysVars, extVars>>

\* The current command exits non-zero because of its environment (package
\* mirror or trust-store endpoint unreachable, openssl error, I/O error on the
\* network volume, container stopped).  The output redirection of genrsa has
\* already truncated its target; curl may have written part of its output.
Fault(r) ==
    /\ run[r].pc \in Active
    /\ run' = [run EXCEPT ![r] = [pc |-> "failed", fault |-> TRUE]]
    /\ \/ /\ run[r].pc = "genrsa"
          /\ vol' = [vol EXCEPT !["selfsigned.key.pem.tmp"] = Truncated(r)]
       \/ /\ run[r].pc = "curl"
          /\ vol' = [vol EXCEPT !["mysqltmp.pem"] = Truncated(r)]
       \/ /\ UNCHANGED vol
    /\ UNCHANGED <<before, lastMv, sysVars, extVars>>


(***************************************************************************)
(* Part 2: provisioning graph, triggers, schedule, invocations, jobs       *)
(***************************************************************************)

\* self.number_of_days_to_regenerate_ssl_materials
number_of_days_to_regenerate_ssl_materials == 2

\* A timeout set one minute too long.
TimeoutMinutesLate == 10 + 1

\* timeout=Duration.minutes(10) of every function that invokes the Job Runner
TimeoutMinutes == 10

\* The scheduled function is built without retry_attempts, and the rule
\* invokes it asynchronously: a failed or timed-out attempt is re-attempted
\* this many times.
RetryAttempts == 2

\* Days of operation that are modelled.
MaxDays == 6

\* Job executions on the cluster that are modelled.
MaxJobs == 4

JobIds == 1..MaxJobs

Triggers == {"OneTimeSSLSetup", "OneTimeEFSDataSetup"}

ScheduledFn == "MaintainSSLMaterialsLambda"

Fns == Triggers \cup {ScheduledFn}

Service == "OpenMRSFargateLBService"

Rule == "RegularScheduleforSSLMaintenance"

Resources ==
    {"DatabaseCluster", "ecs-cluster", "CreateSSLMaterialsTaskDefinition",
     "WriteOpenMRSDatatoDataEFSTask", "OpenMRSFargateTaskDefinition",
     ScheduledFn, Rule, Service} \cup Triggers

Plain == Resources \ (Triggers \cup {Service, Rule})

\* The graph without the add_dependency call that makes the service wait for
\* the one-time TLS function.
DepsWithoutTlsSetupEdge(r) ==
    CASE r = "ecs-cluster" -> {"DatabaseCluster"}
      [] r = "OpenMRSFargateTaskDefinition" -> {"DatabaseCluster"}
      [] r = ScheduledFn -> {"ecs-cluster", "CreateSSLMaterialsTaskDefinition"}
      [] r = Rule -> {ScheduledFn}
      [] r = "OneTimeSSLSetup" -> {"ecs-cluster", "CreateSSLMaterialsTaskDefinition"}
      [] r = "OneTimeEFSDataSetup" -> {"ecs-cluster", "WriteOpenMRSDatatoDataEFSTask"}
      [] r = Service -> {"ecs-cluster", "OpenMRSFargateTaskDefinition"}
      [] OTHER -> {}

\* Dependency edges of the provisioning graph: the explicit add_dependency
\* calls and the references one resource makes to another.
Deps(r) ==
    CASE r = "ecs-cluster" -> {"DatabaseCluster"}
      [] r = "OpenMRSFargateTaskDefinition" -> {"DatabaseCluster"}
      [] r = ScheduledFn -> {"ecs-cluster", "CreateSSLMaterialsTaskDefinition"}
      [] r = Rule -> {ScheduledFn}
      [] r = "OneTimeSSLSetup" -> {"ecs-cluster", "CreateSSLMaterialsTaskDefinition"}
      [] r = "OneTimeEFSDataSetup" -> {"ecs-cluster", "WriteOpenMRSDatatoDataEFSTask"}
      [] r = Service -> {"ecs-cluster", "OpenMRSFargateTaskDefinition", "OneTimeSSLSetup"}
      [] OTHER -> {}

\* A rule that also targets the seed function.
RuleTargetsWithSeed == {ScheduledFn, "OneTimeEFSDataSetup"}

\* Targets of the recurring rule.
RuleTargets == {ScheduledFn}

\* TASK_DEFINITION environment variable of each function.
TaskOf(f) ==
    CASE f = ScheduledFn -> "CreateSSLMaterialsTaskDefinition"
      [] f = "OneTimeSSLSetup" -> "CreateSSLMaterialsTaskDefinition"
      [] f = "OneTimeEFSDataSetup" -> "WriteOpenMRSDatatoDataEFSTask"

\* The seed task given the volume configuration of the ssl folder.
MountsSeedOnSslVolume(td) ==
    CASE td = "CreateSSLMaterialsTaskDefinition" ->
            {[vol |-> "EfsFileSystemForSslFolder", path |-> "/etc/ssl/certs/", readOnly |-> FALSE]}
      [] td = "WriteOpenMRSDatatoDataEFSTask" ->
            {[vol |-> "EfsFileSystemForSslFolder", path |-> "/tmp/data/", readOnly |-> FALSE]}
      [] td = "OpenMRSFargateTaskDefinition" ->
            {[vol |-> "EfsFileSystemForFileStorage", path |-> "/openmrs/data/", readOnly |-> FALSE],
             [vol |-> "EfsFileSystemForSslFolder", path |-> "/etc/ssl/certs/", readOnly |-> FALSE]}
      [] td = "SyncEFStoS3Task" ->
            {[vol |-> "EfsFileSystemForFileStorage", path |-> "/openmrs/data/", readOnly |-> TRUE]}
      [] OTHER -> {}

\* add_volume / MountPoint of each task definition.
Mounts(td) ==
    CASE td = "CreateSSLMaterialsTaskDefinition" ->
            {[vol |-> "EfsFileSystemForSslFolder", path |-> "/etc/ssl/certs/", readOnly |-> FALSE]}
      [] td = "WriteOpenMRSDatatoDataEFSTask" ->
            {[vol |-> "EfsFileSystemForFileStorage", path |-> "/tmp/data/", readOnly |-> FALSE]}
      [] td = "OpenMRSFargateTaskDefinition" ->
            {[vol |-> "EfsFileSystemForFileStorage", path |-> "/openmrs/data/", readOnly |-> FALSE],
             [vol |-> "EfsFileSystemForSslFolder", path |-> "/etc/ssl/certs/", readOnly |-> FALSE]}
      [] td = "SyncEFStoS3Task" ->
            {[vol |-> "EfsFileSystemForFileStorage", path |-> "/openmrs/data/", readOnly |-> TRUE]}
      [] OTHER -> {}

\* Directories the command of each task definition writes to.
CommandWrites(td) ==
    CASE td = "CreateSSLMaterialsTaskDefinition" -> {"/etc/ssl/certs/"}
      [] td = "WriteOpenMRSDatatoDataEFSTask" -> {"/tmp/data/"}
      [] td = "OpenMRSFargateTaskDefinition" -> {"/etc/", "/etc/nginx/templates/"}
      [] OTHER -> {}

WritesVolume(td, v) ==
    \E m \in Mounts(td) : m.vol = v /\ ~m.readOnly /\ m.path \in CommandWrites(td)

NoInvocation == [outcome |-> "none", elapsed |-> 0, job |-> 0, timedOut |-> FALSE, kind |-> "none"]

Fresh(kind) == [outcome |-> "pending", elapsed |-> 0, job |-> 0, timedOut |-> FALSE, kind |-> kind]

NoJob == [td |-> "none", st |-> "none", exit |-> -1]

\* A provisioning run that does not wait for the database cluster.
DepsCreatedIgnoringDatabase(r) ==
    \A d \in Deps(r) \ {"DatabaseCluster"} : res[d] = "created"

DepsCreated(r) == \A d \in Deps(r) : res[d] = "created"

AllCreated(rs) == \A r \in Resources : rs[r] = "created"

ProvAfter(rs) == IF AllCreated(rs) THEN "complete" ELSE prov

Count(f, kind) == [invoked EXCEPT ![f][kind] = @ + 1]

\* A resource without a trigger is created once its dependencies exist.
CreatePlain(r) ==
    /\ r \in Plain
    /\ prov = "in_progress"
    /\ res[r] = "pending"
    /\ DepsCreated(r)
    /\ res' = [res EXCEPT ![r] = "created"]
    /\ prov' = ProvAfter(res')
    /\ UNCHANGED <<inv, job, nextJob, now, sched, invoked, tlsVars, extVars>>

\* A schedule that brings the next tick forward after a failure.
NextFireAfterFailureSooner(t) ==
    IF inv[ScheduledFn].outcome = "failed"
      THEN t + 1
      ELSE t + number_of_days_to_regenerate_ssl_materials

\* Day on which the rule fires next, after it fired on day t.
NextFireAfter(t) == t + number_of_days_to_regenerate_ssl_materials

\* events.Rule(schedule=rate(Duration.days(n))): the rule starts counting
\* when it is created.
CreateRule ==
    /\ prov = "in_progress"
    /\ res[Rule] = "pending"
    /\ DepsCreated(Rule)
    /\ res' = [res EXCEPT ![Rule] = "created"]
    /\ prov' = ProvAfter(res')
    /\ sched' = [sched EXCEPT !.nextFire = NextFireAfter(now),
                              !.lastFire = now]
    /\ UNCHANGED <<inv, job, nextJob, now, invoked, tlsVars, extVars>>

\* Creation of a resource fails: the provisioning run stops.
CreateFails(r) ==
    /\ r \in Plain \cup {Rule}
    /\ prov = "in_progress"
    /\ res[r] = "pending"
    /\ DepsCreated(r)
    /\ res' = [res EXCEPT ![r] = "failed"]
    /\ prov' = "failed"
    /\ UNCHANGED <<inv, job, nextJob, now, sched, invoked, tlsVars, extVars>>

\* triggers.TriggerFunction: the function is invoked once, when the
\* resources it depends on exist.
RequestTrigger(f) ==
    /\ f \in Triggers
    /\ prov = "in_progress"
    /\ res[f] = "pending"
    /\ DepsCreated(f)
    /\ res' = [res EXCEPT ![f] = "requested"]
    /\ inv' = [inv EXCEPT ![f] = Fresh("one_time")]
    /\ invoked' = Count(f, "one_time")
    /\ UNCHANGED <<prov, job, nextJob, now, sched, tlsVars, extVars>>

\* The provisioning run observes the outcome of a one-time invocation.
TriggerObserved(f) ==
    /\ f \in Triggers
    /\ prov = "in_progress"
    /\ res[f] = "requested"
    /\ inv[f].outcome \in {"succeeded", "failed"}
    /\ IF inv[f].outcome = "succeeded"
         THEN /\ res' = [res EXCEPT ![f] = "created"]
              /\ prov' = ProvAfter(res')
         ELSE /\ res' = [res EXCEPT ![f] = "failed"]
              /\ prov' = "failed"
    /\ UNCHANGED <<inv, job, nextJob, now, sched, invoked, tlsVars, extVars>>

\* ecs_patterns.ApplicationLoadBalancedFargateService: creation of the
\* service is requested (its tasks start).
RequestService ==
    /\ prov = "in_progress"
    /\ res[Service] = "pending"
    /\ DepsCreated(Service)
    /\ res' = [res EXCEPT ![Service] = "requested"]
    /\ UNCHANGED <<prov, inv, job, nextJob, now, sched, invoked, tlsVars, extVars>>

\* The service reaches its steady state, or fails to.
ServiceObserved ==
    /\ prov = "in_progress"
    /\ res[Service] = "requested"
    /\ \/ /\ res' = [res EXCEPT ![Service] = "created"]
          /\ prov' = ProvAfter(res')
       \/ /\ res' = [res EXCEPT ![Service] = "failed"]
          /\ prov' = "failed"
    /\ UNCHANGED <<inv, job, nextJob, now, sched, invoked, tlsVars, extVars>>

\* Handler of a function that invokes the Job Runner: start the task of
\* TASK_DEFINITION on ECS_CLUSTER ...
RunTask(f) ==
    /\ inv[f].outcome = "pending"
    /\ inv[f].job = 0
    /\ nextJob <= MaxJobs
    /\ job' = [job EXCEPT ![nextJob] = [td |-> TaskOf(f), st |-> "RUNNING", exit |-> -1]]
    /\ inv' = [inv EXCEPT ![f].job = nextJob]
    /\ nextJob' = nextJob + 1
    /\ UNCHANGED <<res, prov, now, sched, invoked, tlsVars, extVars>>

\* ... the Job Runner refuses to start the task: the handler raises ...
RunTaskFails(f) ==
    /\ inv[f].outcome = "pending"
    /\ inv[f].job = 0
    /\ inv' = [inv EXCEPT ![f].outcome = "failed", ![f].elapsed = 0]
    /\ UNCHANGED <<res, prov, job, nextJob, now, sched, invoked, tlsVars, extVars>>

\* A handler that does not look at the exit code.
OutcomeIgnoringExitCode(exit) == "succeeded"

\* Outcome the handler reports for a stopped task: exit code 0 is success.
OutcomeOf(exit) == IF exit = 0 THEN "succeeded" ELSE "failed"

\* ... poll last_status until the task has stopped, then return or raise.
Poll(f) ==
    /\ inv[f].outcome = "pending"
    /\ inv[f].job # 0
    /\ job[inv[f].job].st = "STOPPED"
    /\ inv' = [inv EXCEPT ![f].outcome = OutcomeOf(job[inv[f].job].exit),
                          ![f].elapsed = 0]
    /\ UNCHANGED <<res, prov, job, nextJob, now, sched, invoked, tlsVars, extVars>>

\* The container of a job execution exits.
JobStops(j) ==
    /\ job[j].st = "RUNNING"
    /\ \E e \in {0, 1} : job' = [job EXCEPT ![j].st = "STOPPED", ![j].exit = e]
    /\ UNCHANGED <<res, prov, inv, nextJob, now, sched, invoked, tlsVars, extVars>>

\* A running function instance has run for t minutes.
AfterMinute(i) ==
    IF i.outcome # "pending" THEN i
    ELSE IF i.elapsed + 1 >= TimeoutMinutes
           THEN [i EXCEPT !.elapsed = @ + 1, !.outcome = "failed", !.timedOut = TRUE]
           ELSE [i EXCEPT !.elapsed = @ + 1]

\* A minute passes for every running function instance; an instance that
\* reaches its timeout is ended by the platform with an error.
MinutePasses ==
    /\ \E f \in Fns : inv[f].outcome = "pending"
    /\ inv' = [f \in Fns |-> AfterMinute(inv[f])]
    /\ UNCHANGED <<res, prov, job, nextJob, now, sched, invoked, tlsVars, extVars>>

\* The recurring rule fires and invokes its targets asynchronously.
Tick ==
    /\ res[Rule] = "created"
    /\ prov = "complete"
    /\ now = sched.nextFire
    /\ inv' = [f \in Fns |-> IF f \in RuleTargets THEN Fresh("scheduled") ELSE inv[f]]
    /\ invoked' = [f \in Fns |->
                     IF f \in RuleTargets
                       THEN [invoked[f] EXCEPT !["scheduled"] = @ + 1]
                       ELSE invoked[f]]
    /\ sched' = [nextFire |-> NextFireAfter(now),
                 lastFire |-> now,
                 fireCount |-> sched.fireCount + 1,
                 gap |-> now - sched.lastFire,
                 attempt |-> 0,
                 prevFailed |-> (inv[ScheduledFn].outcome = "failed")]
    /\ UNCHANGED <<res, prov, job, nextJob, now, tlsVars, extVars>>

RetryDue ==
    /\ inv[ScheduledFn].kind = "scheduled"
    /\ inv[ScheduledFn].outcome = "failed"
    /\ sched.attempt < RetryAttempts

\* Asynchronous invocation: an attempt that ended in an error is re-attempted.
Retry ==
    /\ RetryDue
    /\ inv' = [inv EXCEPT ![ScheduledFn] = Fresh("scheduled")]
    /\ sched' = [sched EXCEPT !.attempt = @ + 1]
    /\ UNCHANGED <<res, prov, job, nextJob, now, invoked, tlsVars, extVars>>

\* A day passes.  Function instances live for minutes, and the rule fires on
\* the day it is due.
DayPasses ==
    /\ prov = "complete"
    /\ now < MaxDays
    /\ now < sched.nextFire
    /\ \A f \in Fns : inv[f].outcome # "pending"
    /\ ~RetryDue
    /\ now' = now + 1
    /\ UNCHANGED <<res, prov, inv, job, nextJob, sched, invoked, tlsVars, extVars>>

InitSys ==
    /\ res = [r \in Resources |-> "pending"]
    /\ prov = "in_progress"
    /\ inv = [f \in Fns |-> NoInvocation]
    /\ job = [j \in JobIds |-> NoJob]
    /\ nextJob = 1
    /\ now = 0
    /\ sched = [nextFire |-> 0, lastFire |-> 0, fireCount |-> 0, gap |-> 0,
                attempt |-> 0, prevFailed |-> FALSE]
    /\ invoked = [f \in Fns |-> [one_time |-> 0, scheduled |-> 0]]

\* The TLS volume before any execution of the TLS generation job.
IdleTls ==
    /\ vol = EmptyVolume
    /\ run = [r \in RunIds |-> [pc |-> "idle", fault |-> FALSE]]
    /\ before = [r \in RunIds |-> Finals(EmptyVolume)]
    /\ lastMv = [f \in FinalFiles |-> 0]

Init ==
    /\ InitSys
    /\ IdleTls
    /\ IdleExt

Next ==
    \/ \E r \in Resources : CreatePlain(r)
    \/ CreateRule
    \/ \E r \in Resources : CreateFails(r)
    \/ \E f \in Triggers : RequestTrigger(f)
    \/ \E f \in Triggers : TriggerObserved(f)
    \/ RequestService
    \/ ServiceObserved
    \/ \E f \in Fns : RunTask(f)
    \/ \E f \in Fns : RunTaskFails(f)
    \/ \E f \in Fns : Poll(f)
    \/ \E j \in JobIds : JobStops(j)
    \/ MinutePasses
    \/ Tick
    \/ Retry
    \/ DayPasses

Spec == Init /\ [][Next]_vars

InitTls ==
    /\ vol \in {EmptyVolume, SeededVolume}
    /\ run = [r \in RunIds |-> [pc |-> "idle", fault |-> FALSE]]
    /\ before = [r \in RunIds |-> Finals(EmptyVolume)]
    /\ lastMv = [f \in FinalFiles |-> 0]
    /\ InitSys
    /\ IdleExt

NextTls ==
    \E r \in RunIds :
        \/ StartRun(r)
        \/ Apk(r)
        \/ GenRsa(r)
        \/ Req(r)
        \/ Curl(r)
        \/ MvCert(r)
        \/ MvKey(r)
        \/ MvMysql(r)
        \/ Fault(r)

SpecTls == InitTls /\ [][NextTls]_vars

(***************************************************************************)
(* Part 3: the seed job, "cp -r /openmrs/data/. /tmp/data", on the data    *)
(* volume                                                                  *)
(***************************************************************************)

MaxImageFiles == 2

MaxSeedRuns == 2

SeedRunIds == 1 .. MaxSeedRuns

\* Paths below /openmrs/data of the image; path 0 exists on the volume only.
ImagePaths == 1 .. MaxImageFiles

DataPaths == 0 .. MaxImageFiles

NoFile == <<>>

\* Content of path p in the image, the same in every execution.
ImageContent(p) == <<[from |-> "image", path |-> p]>>

\* Content written at path p by an earlier user of the volume.
RuntimeContent(p) == <<[from |-> "runtime", path |-> p]>>

NoSnapshot == <<>>

DestinationFlattened(p) == 0

\* cp -r /openmrs/data/. /tmp/data keeps the path below the directory.
DestinationOf(p) == p

CopyResultAppend(old, img) == old \o img

\* cp opens an existing destination with truncation and writes the source.
CopyResult(old, img) == img

\* The volumes the job can find: every path absent or written before.
DataVolumes ==
    {v \in [DataPaths -> {"none", "image", "runtime"}] : v[0] # "image"}

ContentOf(kind, p) ==
    CASE kind = "none" -> NoFile
      [] kind = "image" -> ImageContent(p)
      [] OTHER -> RuntimeContent(p)

InitSeedJob ==
    /\ \E v \in DataVolumes : dataVol = [p \in DataPaths |-> ContentOf(v[p], p)]
    /\ seedRun = [i \in SeedRunIds |-> [pc |-> "idle", next |-> 1]]
    /\ afterFirst = NoSnapshot
    /\ initialVol = dataVol
    /\ syncRun = [pc |-> "idle", attempted |-> FALSE]

\* The task of the seed job is started once more.
StartSeed(i) ==
    /\ seedRun[i].pc = "idle"
    /\ seedRun' = [seedRun EXCEPT ![i].pc = "copying"]
    /\ UNCHANGED <<dataVol, afterFirst, initialVol, syncRun, notSeedVars>>

\* cp copies the next path of the image; after the last one it exits 0.
CopyFile(i) ==
    /\ seedRun[i].pc = "copying"
    /\ LET p == seedRun[i].next
           d == DestinationOf(p)
           v == [dataVol EXCEPT ![d] = CopyResult(dataVol[d], ImageContent(p))]
           last == p = MaxImageFiles
       IN  /\ dataVol' = v
           /\ seedRun' = [seedRun EXCEPT ![i] =
                             [pc |-> IF last THEN "done" ELSE "copying",
                              next |-> p + 1]]
           /\ afterFirst' = IF last /\ afterFirst = NoSnapshot
                            THEN v ELSE afterFirst
    /\ UNCHANGED <<initialVol, syncRun, notSeedVars>>

\* The task is stopped before cp has copied every path.
SeedFault(i) ==
    /\ seedRun[i].pc = "copying"
    /\ seedRun' = [seedRun EXCEPT ![i].pc = "failed"]
    /\ UNCHANGED <<dataVol, afterFirst, initialVol, syncRun, notSeedVars>>

\* The mount of the data volume in the container of a task definition.
DataMount(td) ==
    CHOOSE m \in Mounts(td) : m.vol = "EfsFileSystemForFileStorage"

WriteThroughIgnoringMode(m, old, new) == new

\* A write below a mount point: a read-only mount refuses it.
WriteThrough(m, old, new) == IF m.readOnly THEN old ELSE new

\* The task of the EFS to S3 sync job is started.
StartSync ==
    /\ syncRun.pc = "idle"
    /\ syncRun' = [syncRun EXCEPT !.pc = "running"]
    /\ UNCHANGED <<dataVol, seedRun, afterFirst, initialVol, notSeedVars>>

\* Whatever the container attempts at a path below /openmrs/data/ (create,
\* overwrite, remove) goes through the mount of its task definition.
SyncTouches(p, c) ==
    /\ syncRun.pc = "running"
    /\ dataVol' = [dataVol EXCEPT ![p] =
                      WriteThrough(DataMount("SyncEFStoS3Task"), @, c)]
    /\ syncRun' = [syncRun EXCEPT !.attempted = TRUE]
    /\ UNCHANGED <<seedRun, afterFirst, initialVol, notSeedVars>>

\* "yum install awscli -y && aws s3 sync ..." exits, with 0 or not.
SyncEnds(success) ==
    /\ syncRun.pc = "running"
    /\ syncRun' = [syncRun EXCEPT !.pc = IF success THEN "done" ELSE "failed"]
    /\ UNCHANGED <<dataVol, seedRun, afterFirst, initialVol, notSeedVars>>

SyncStep ==
    \/ StartSync
    \/ \E p \in DataPaths : \E c \in {NoFile, RuntimeContent(p)} : SyncTouches(p, c)
    \/ \E success \in BOOLEAN : SyncEnds(success)

InitSeed ==
    /\ InitSeedJob
    /\ InitSys
    /\ IdleTls
    /\ IdleExceptSeed

NextSeed ==
    \/ \E i \in SeedRunIds :
          \/ StartSeed(i)
          \/ CopyFile(i)
          \/ SeedFault(i)
    \/ SyncStep

SpecSeed == InitSeed /\ [][NextSeed]_vars

(***************************************************************************)
(* Part 4: the mail set-up: MakeRuleSetActive (make_ruleset_active) and    *)
(* SMTPSetup (generate_smtp_credential)                                    *)
(***************************************************************************)

MaxKeys == 3

MaxSmtpRuns == 2

\* Secret components of the access keys SmtpAccessKey can be created with.
AccessKeys == 1 .. MaxKeys

\* "RuleSet" is the rule set of the stack; the others are names RULE_SET_NAME
\* can hold when the rule set it was taken from is gone.
RuleSetNames == {"RuleSet", "Replaced", "Unknown"}

NoRuleSet == "none"

NoCall == <<>>

SetActiveUnchecked(sets, active, name) == [active |-> name, ok |-> TRUE]

\* ses:SetActiveReceiptRuleSet: RuleSetDoesNotExist for an unknown name.
SetActive(sets, active, name) ==
    IF name \in sets
    THEN [active |-> name, ok |-> TRUE]
    ELSE [active |-> active, ok |-> FALSE]

\* The entry "secret-access-key" of access key k.
KeyEntry(k) == {<<"password", k>>}

\* The SMTP password of an access key is computed from its secret component.
Derive(k) == [smtp_password_of |-> k]

\* The entry "smtp-secret" as created: a generated value, no access key in it.
GeneratedEntry == {<<"generated", [smtp_password_of |-> 0]>>}

PutSecretMerged(old, new) == old \cup new

\* The write to the secret entry replaces the entry.
PutSecret(old, new) == new

MaxMessages == 2

RuleActionsLambdaFirst(forwarding) ==
    IF forwarding THEN <<"Lambda", "S3">> ELSE <<"S3">>

\* actions=[...] of ForwardingRule, in the two branches on
\* email_forwarding_address.
RuleActions(forwarding) ==
    IF forwarding THEN <<"S3", "Lambda">> ELSE <<"S3">>

\* rule_set.add_rule: the rules of RuleSet.
ReceiptRules(forwarding) ==
    {[name |-> "ForwardingRule", recipients |-> {"help@route53_domain"},
      actions |-> RuleActions(forwarding)]}

NoRead == <<>>

\* Named parameters of the mail subsystem (ssm.StringParameter).
MailParameters ==
    {"mail_transport_protocol", "mail_user", "smtp_host", "smtp_port",
     "smtp_auth", "smtp_tls_enable", "mail_from"}

\* What the service is ordered after in the mail subsystem: the resources
\* its task definition and its security group refer to.  add_dependency is
\* called for the one-time TLS function only.
ServiceMailDeps ==
    MailParameters \cup {"smtp-secret", "smtp_interface_endpoint"}

InitMailSetup ==
    /\ ruleSets = {"RuleSet"}
    /\ activeRuleSet \in {NoRuleSet, "RuleSet"}
    /\ lastCall = NoCall
    /\ secretAccessKey \in {KeyEntry(k) : k \in AccessKeys}
    /\ smtpSecret = GeneratedEntry
    /\ smtpWrites = <<>>
    /\ serviceRead = NoRead
    /\ forwardingAddress \in BOOLEAN
    /\ received = <<>>

\* A rule set is created in the account.
CreateRuleSet(n) ==
    /\ n \notin ruleSets
    /\ n # "Unknown"
    /\ ruleSets' = ruleSets \cup {n}
    /\ UNCHANGED <<activeRuleSet, lastCall, secretAccessKey, smtpSecret,
                   smtpWrites, serviceRead, notMailVars,
                   forwardingAddress, received>>

\* A rule set that is not the active one is deleted from the account.
DeleteRuleSet(n) ==
    /\ n \in ruleSets
    /\ n # activeRuleSet
    /\ ruleSets' = ruleSets \ {n}
    /\ UNCHANGED <<activeRuleSet, lastCall, secretAccessKey, smtpSecret,
                   smtpWrites, serviceRead, notMailVars,
                   forwardingAddress, received>>

\* make_ruleset_active with RULE_SET_NAME = n.
MakeRulesetActive(n) ==
    LET reply == SetActive(ruleSets, activeRuleSet, n)
    IN  /\ activeRuleSet' = reply.active
        /\ lastCall' = [name |-> n, existed |-> n \in ruleSets,
                        before |-> activeRuleSet, after |-> reply.active,
                        ok |-> reply.ok]
        /\ UNCHANGED <<ruleSets, secretAccessKey, smtpSecret, smtpWrites,
                       serviceRead, notMailVars,
                   forwardingAddress, received>>

\* SmtpAccessKey is replaced; "secret-access-key" holds the new key's secret.
ReplaceAccessKey(k) ==
    /\ secretAccessKey # KeyEntry(k)
    /\ secretAccessKey' = KeyEntry(k)
    /\ UNCHANGED <<ruleSets, activeRuleSet, lastCall, smtpSecret, smtpWrites,
                   serviceRead, notMailVars,
                   forwardingAddress, received>>

\* generate_smtp_credential: reads SECRET_ACCESS_KEY, writes SMTP_PASSWORD.
GenerateSmtpCredential ==
    /\ Len(smtpWrites) < MaxSmtpRuns
    /\ \E k \in AccessKeys :
          /\ secretAccessKey = KeyEntry(k)
          /\ smtpSecret' = PutSecret(smtpSecret, {<<"password", Derive(k)>>})
          /\ smtpWrites' = Append(smtpWrites, k)
    /\ UNCHANGED <<ruleSets, activeRuleSet, lastCall, secretAccessKey,
                   serviceRead, notMailVars,
                   forwardingAddress, received>>

\* A task of the service starts: the agent reads the field "password" of
\* smtp-secret for OMRS_EXTRA_MAIL_PASSWORD.
ServiceReadsSmtpSecret ==
    /\ serviceRead = NoRead
    /\ "SMTPSetup" \in ServiceMailDeps => smtpWrites # <<>>
    /\ serviceRead' = [written |-> smtpWrites # <<>>,
                       found |-> {e[2] : e \in {x \in smtpSecret : x[1] = "password"}}]
    /\ UNCHANGED <<ruleSets, activeRuleSet, lastCall, secretAccessKey,
                   smtpSecret, smtpWrites, notMailVars,
                   forwardingAddress, received>>

\* The mail service accepts a message for a recipient of a rule.
ReceiveMessage(rule) ==
    /\ Len(received) < MaxMessages
    /\ received # <<>> => received[Len(received)].complete
    /\ received' = Append(received,
                          [rule |-> rule.name, log |-> <<>>, complete |-> FALSE])
    /\ UNCHANGED <<ruleSets, activeRuleSet, lastCall, secretAccessKey,
                   smtpSecret, smtpWrites, serviceRead, forwardingAddress,
                   notMailVars>>

\* The mail service runs the next action of the rule on the message.
RunRuleAction(rule) ==
    /\ received # <<>>
    /\ LET n == Len(received)
           m == received[n]
           k == Len(m.log) + 1
       IN  /\ ~m.complete
           /\ m.rule = rule.name
           /\ received' = [received EXCEPT ![n] =
                               [rule |-> m.rule,
                                log |-> Append(m.log, rule.actions[k]),
                                complete |-> k = Len(rule.actions)]]
    /\ UNCHANGED <<ruleSets, activeRuleSet, lastCall, secretAccessKey,
                   smtpSecret, smtpWrites, serviceRead, forwardingAddress,
                   notMailVars>>

InitMail ==
    /\ InitMailSetup
    /\ InitSys
    /\ IdleTls
    /\ IdleExceptMail

NextMail ==
    \/ \E n \in RuleSetNames : CreateRuleSet(n)
    \/ \E n \in RuleSetNames : DeleteRuleSet(n)
    \/ \E n \in RuleSetNames : MakeRulesetActive(n)
    \/ \E k \in AccessKeys : ReplaceAccessKey(k)
    \/ GenerateSmtpCredential
    \/ ServiceReadsSmtpSecret
    \/ \E rule \in ReceiptRules(forwardingAddress) : ReceiveMessage(rule)
    \/ \E rule \in ReceiptRules(forwardingAddress) : RunRuleAction(rule)

SpecMail == InitMail /\ [][NextMail]_vars

(***************************************************************************)
(* Part 5: the export functions EFStoS3ExportLambda (sync_efs_to_s3) and   *)
(* RDStoS3ExportLambda (export_from_rds_to_s3)                             *)
(***************************************************************************)

MaxRequests == 2

ExportFns == {"EFStoS3ExportLambda", "RDStoS3ExportLambda"}

\* lambda:InvokeFunction, granted to the notebook role, allows both types.
InvocationTypes == {"RequestResponse", "Event"}

NoRequest ==
    [n |-> 0, type |-> "none", phase |-> "none", attempt |-> 0, jobs |-> 0,
     ok |-> FALSE, returned |-> "nothing"]

RetryLimitAlways(type) == RetryAttempts

\* The platform re-attempts asynchronous invocations only; the functions
\* are built without retry_attempts.
RetryLimit(type) == IF type = "Event" THEN RetryAttempts ELSE 0

ExportRetryDue(f) ==
    /\ req[f].phase = "ended"
    /\ ~req[f].ok
    /\ req[f].attempt < RetryLimit(req[f].type)

\* A caller invokes the function; an asynchronous request is only accepted.
InvokeExport(f, t) ==
    /\ req[f].phase \in {"none", "ended"}
    /\ ~ExportRetryDue(f)
    /\ req[f].n < MaxRequests
    /\ req' = [req EXCEPT ![f] =
                  [n |-> req[f].n + 1, type |-> t, phase |-> "queued",
                   attempt |-> 0, jobs |-> 0, ok |-> FALSE,
                   returned |-> IF t = "Event" THEN "accepted" ELSE "nothing"]]
    /\ UNCHANGED notExportVars

\* The handler starts its job (the sync task, or the export of the database).
StartExportJob(f) ==
    /\ req[f].phase = "queued"
    /\ req' = [req EXCEPT ![f].phase = "running", ![f].jobs = @ + 1]
    /\ UNCHANGED notExportVars

\* The job ends and the handler returns, or raises when the job has failed.
ExportJobEnds(f, success) ==
    /\ req[f].phase = "running"
    /\ req' = [req EXCEPT ![f].phase = "ended", ![f].ok = success,
                          ![f].returned =
                              IF req[f].type = "Event" THEN @
                              ELSE IF success THEN "result" ELSE "error"]
    /\ UNCHANGED notExportVars

\* The platform re-attempts an invocation that ended in an error.
ExportRetry(f) ==
    /\ ExportRetryDue(f)
    /\ req' = [req EXCEPT ![f].phase = "queued", ![f].attempt = @ + 1]
    /\ UNCHANGED notExportVars

InitExport ==
    /\ req = [f \in ExportFns |-> NoRequest]
    /\ InitSys
    /\ IdleTls
    /\ IdleExceptExport

NextExport ==
    \E f \in ExportFns :
        \/ \E t \in InvocationTypes : InvokeExport(f, t)
        \/ StartExportJob(f)
        \/ \E success \in BOOLEAN : ExportJobEnds(f, success)
        \/ ExportRetry(f)

SpecExport == InitExport /\ [][NextExport]_vars

(***************************************************************************)
(* Part 6: __init__ runs the construction steps in a fixed order; a step   *)
(* sets component handles (attributes of the stack) and reads handles      *)
(***************************************************************************)

ContextFlags ==
    {"route53_domain", "certificate_arn", "configure_ses",
     "enable_global_accelerator", "enable_ecs_exec",
     "enable_bedrock_integration", "create_serverless_analytics_environment",
     "security_group_ip_range_ipv4", "security_group_ip_range_ipv6"}

BuildSteps ==
    <<"_create_vpc", "_create_security_groups", "_create_elb_log_bucket",
      "_create_alb", "_create_and_configure_dns_and_certificates",
      "_configure_ses", "_create_waf", "_create_environment_variables",
      "_create_password", "_create_db_instance", "_create_efs_volume",
      "_create_backup", "_create_ecs_cluster",
      "_create_and_maintain_tls_materials",
      "_perpare_data_efs_for_openmrs_service", "_create_openmrs_service",
      "_create_serverless_analytics_environment">>

MailHandles ==
    MailParameters \cup
        {"smtp_password", "secret_access_key",
         "one_time_generate_smtp_credential_lambda", "smtp_interface_endpoint",
         "email_storage_bucket", "set_rule_set_to_active"}

EfsHandles ==
    {"file_system_for_file_storage", "efs_volume_configuration_for_data_storage",
     "file_system_for_ssl_folder", "efs_volume_configuration_for_ssl_folder"}

ExecHandles == {"kms_key", "ecs_exec_group", "exec_bucket"}

\* The mail subsystem is built under this condition only.
MailBuilt(fl) == fl["route53_domain"] /\ fl["configure_ses"]

\* Handles a step assigns.
Sets(step, fl) ==
    CASE step = "_create_vpc" -> {"vpc"}
      [] step = "_create_security_groups" -> {"db_sec_group", "lb_sec_group"}
      [] step = "_create_elb_log_bucket" -> {"elb_log_bucket"}
      [] step = "_create_alb" ->
            {"alb"} \cup
            (IF fl["enable_global_accelerator"] THEN {"accelerator"} ELSE {})
      [] step = "_create_and_configure_dns_and_certificates" ->
            IF fl["route53_domain"] THEN {"certificate"} ELSE {}
      [] step = "_configure_ses" -> IF MailBuilt(fl) THEN MailHandles ELSE {}
      [] step = "_create_environment_variables" -> {"swarm_mode", "mysql_port_var"}
      [] step = "_create_password" -> {"password"}
      [] step = "_create_db_instance" -> {"db_instance"}
      [] step = "_create_efs_volume" -> EfsHandles
      [] step = "_create_ecs_cluster" ->
            {"ecs_cluster", "log_group"} \cup
            (IF fl["enable_ecs_exec"] THEN ExecHandles ELSE {})
      [] step = "_create_and_maintain_tls_materials" ->
            {"efs_only_security_group", "one_time_create_ssl_materials_lambda"}
      [] step = "_perpare_data_efs_for_openmrs_service" ->
            {"one_time_sync_openmrs_data_to_efs_lambda"}
      [] step = "_create_openmrs_service" ->
            IF fl["certificate_arn"] THEN {"certificate"} ELSE {}
      [] step = "_create_serverless_analytics_environment" ->
            IF fl["create_serverless_analytics_environment"]
            THEN {"analytics_kms_key", "export_bucket_rds", "export_bucket_efs",
                  "sagemaker_api_interface_endpoint",
                  "sagemaker_runtime_interface_endpoint"}
            ELSE {}
      [] OTHER -> {}

\* Mail handles the service step reads (lines 1178 and 1397).
ServiceReadsMail(fl) ==
    IF fl["configure_ses"]
    THEN MailParameters \cup {"smtp_password", "smtp_interface_endpoint"}
    ELSE {}

\* Handles a step reads that it has not assigned itself before the read.
Reads(step, fl) ==
    CASE step = "_create_security_groups" -> {"vpc"}
      [] step = "_create_alb" -> {"lb_sec_group", "vpc", "elb_log_bucket"}
      [] step = "_create_and_configure_dns_and_certificates" ->
            IF ~fl["route53_domain"] THEN {}
            ELSE IF fl["enable_global_accelerator"] THEN {"accelerator"}
            ELSE {"alb"}
      [] step = "_configure_ses" -> IF MailBuilt(fl) THEN {"vpc"} ELSE {}
      [] step = "_create_waf" -> {"alb"}
      [] step = "_create_db_instance" -> {"db_sec_group", "vpc"}
      [] step = "_create_efs_volume" -> {"vpc"}
      [] step = "_create_backup" ->
            {"db_instance", "file_system_for_ssl_folder",
             "file_system_for_file_storage"}
      [] step = "_create_ecs_cluster" -> {"vpc", "db_instance"}
      [] step = "_create_and_maintain_tls_materials" ->
            {"efs_volume_configuration_for_ssl_folder", "log_group", "vpc",
             "file_system_for_ssl_folder", "ecs_cluster"}
      [] step = "_perpare_data_efs_for_openmrs_service" ->
            {"efs_volume_configuration_for_data_storage", "log_group", "vpc",
             "efs_only_security_group", "file_system_for_file_storage",
             "ecs_cluster"}
      [] step = "_create_openmrs_service" ->
            {"efs_volume_configuration_for_data_storage",
             "efs_volume_configuration_for_ssl_folder", "log_group",
             "db_instance", "password", "ecs_cluster", "alb",
             "one_time_create_ssl_materials_lambda",
             "file_system_for_ssl_folder", "file_system_for_file_storage"}
            \cup ServiceReadsMail(fl)
            \cup (IF fl["route53_domain"] /\ ~fl["certificate_arn"]
                  THEN {"certificate"} ELSE {})
            \cup (IF fl["enable_ecs_exec"] THEN ExecHandles ELSE {})
      [] step = "_create_serverless_analytics_environment" ->
            IF fl["create_serverless_analytics_environment"]
            THEN {"vpc", "efs_volume_configuration_for_data_storage",
                  "log_group", "ecs_cluster", "efs_only_security_group",
                  "file_system_for_file_storage", "db_instance"}
            ELSE {}
      [] OTHER -> {}

\* Named parameters (ssm.StringParameter) a step creates.
ParametersOf(step, fl) ==
    CASE step = "_create_environment_variables" -> {"swarm_mode", "mysql_port"}
      [] step = "_configure_ses" -> IF MailBuilt(fl) THEN MailParameters ELSE {}
      [] OTHER -> {}

\* Named parameters given to the backend container (Secret.from_ssm_parameter).
PassedBy(step, fl) ==
    IF step = "_create_openmrs_service" /\ fl["configure_ses"]
    THEN MailParameters
    ELSE {}

\* The condition under which the stack serves HTTPS to its users.
HasCertificate(fl) == fl["certificate_arn"] \/ fl["route53_domain"]

IngressRulesIpv6OnPort80(fl) ==
    (IF fl["security_group_ip_range_ipv4"]
     THEN {[peer |-> "security_group_ip_range_ipv4",
            port |-> IF HasCertificate(fl) THEN 443 ELSE 80]}
     ELSE {})
    \cup
    (IF fl["security_group_ip_range_ipv6"]
     THEN {[peer |-> "security_group_ip_range_ipv6", port |-> 80]}
     ELSE {})

\* lb_sec_group.add_ingress_rule calls of _create_security_groups.
IngressRules(fl) ==
    (IF HasCertificate(fl)
     THEN IF fl["security_group_ip_range_ipv4"]
          THEN {[peer |-> "security_group_ip_range_ipv4", port |-> 443]}
          ELSE {}
     ELSE IF fl["security_group_ip_range_ipv4"]
          THEN {[peer |-> "security_group_ip_range_ipv4", port |-> 80]}
          ELSE {})
    \cup
    (IF HasCertificate(fl)
     THEN IF fl["security_group_ip_range_ipv6"]
          THEN {[peer |-> "security_group_ip_range_ipv6", port |-> 443]}
          ELSE {}
     ELSE IF fl["security_group_ip_range_ipv6"]
          THEN {[peer |-> "security_group_ip_range_ipv6", port |-> 80]}
          ELSE {})

\* Port of GAListener.
AcceleratorListenerPort(fl) == IF HasCertificate(fl) THEN 443 ELSE 80

AcceleratorUrlSchemePlain(fl) == "http"

\* Scheme of the output GlobalAcceleratorUrl.
AcceleratorUrlScheme(fl) == IF HasCertificate(fl) THEN "https" ELSE "http"

CertificateAfterKeepingIssued(step, fl, cert) ==
    IF step = "_create_and_configure_dns_and_certificates" /\ fl["route53_domain"]
    THEN "issued"
    ELSE IF step = "_create_openmrs_service" /\ fl["certificate_arn"] /\ cert = "unset"
    THEN "user"
    ELSE cert

\* Value of self.certificate after a step: the wildcard certificate the
\* stack issues, then the certificate of certificate_arn.
CertificateAfter(step, fl, cert) ==
    IF step = "_create_and_configure_dns_and_certificates" /\ fl["route53_domain"]
    THEN "issued"
    ELSE IF step = "_create_openmrs_service" /\ fl["certificate_arn"]
    THEN "user"
    ELSE cert

\* What a step adds to the configuration of the network front.
Configure(step, fl, c) ==
    LET cert == CertificateAfter(step, fl, c.certificate)
    IN  [ingress |-> IF step = "_create_security_groups"
                     THEN IngressRules(fl) ELSE c.ingress,
         gaPort |-> IF step = "_create_alb" /\ fl["enable_global_accelerator"]
                    THEN AcceleratorListenerPort(fl) ELSE c.gaPort,
         gaScheme |-> IF step = "_create_alb" /\ fl["enable_global_accelerator"]
                      THEN AcceleratorUrlScheme(fl) ELSE c.gaScheme,
         certificate |-> cert,
         listener |-> IF step # "_create_openmrs_service" THEN c.listener
                      ELSE IF HasCertificate(fl) THEN cert ELSE "none"]

NotRaised == <<>>

CurrentStep == BuildSteps[pc]

InitBuildSteps ==
    /\ flags \in [ContextFlags -> BOOLEAN]
    /\ pc = 1
    /\ handles = {}
    /\ raised = NotRaised
    /\ params = {}
    /\ passed = {}
    /\ cfg = [ingress |-> {}, gaPort |-> 0, gaScheme |-> "none",
              certificate |-> "unset", listener |-> "unbuilt"]

\* The next step finds every handle it reads and runs to its end.
StepRuns ==
    /\ raised = NotRaised
    /\ pc <= Len(BuildSteps)
    /\ Reads(CurrentStep, flags) \subseteq handles
    /\ handles' = handles \cup Sets(CurrentStep, flags)
    /\ params' = params \cup ParametersOf(CurrentStep, flags)
    /\ passed' = passed \cup PassedBy(CurrentStep, flags)
    /\ cfg' = Configure(CurrentStep, flags, cfg)
    /\ pc' = pc + 1
    /\ UNCHANGED <<flags, raised, notBuildVars>>

\* The next step reads an attribute no step has set: AttributeError.
StepRaises ==
    /\ raised = NotRaised
    /\ pc <= Len(BuildSteps)
    /\ ~(Reads(CurrentStep, flags) \subseteq handles)
    /\ raised' = [step |-> CurrentStep,
                  missing |-> Reads(CurrentStep, flags) \ handles]
    /\ UNCHANGED <<flags, pc, handles, params, passed, cfg, notBuildVars>>

InitBuild ==
    /\ InitBuildSteps
    /\ InitSys
    /\ IdleTls
    /\ IdleExceptBuild

NextBuild ==
    \/ StepRuns
    \/ StepRaises

SpecBuild == InitBuild /\ [][NextBuild]_vars

(***************************************************************************)
(* Part 7: the scheduled refresh against the validity of the certificate   *)
(* ("openssl req ... -days 365")                                           *)
(***************************************************************************)

CertificateValidityDays == 365

MaxExpiryDays == 370

ExpiredAfterOneDay(age) == age >= 1

\* A certificate is expired once its whole validity has passed.
Expired(age) == age >= CertificateValidityDays

\* The one-time set-up has installed a certificate on the day the stack is
\* created; the rule fires one period later for the first time.
InitRefresh ==
    /\ day = 0
    /\ certDay = 0
    /\ failStreak = 0
    /\ nextRefresh = NextFireAfter(0)

\* The rule fires and the generation run completes: a new certificate.
RefreshSucceeds ==
    /\ day = nextRefresh
    /\ certDay' = day
    /\ failStreak' = 0
    /\ nextRefresh' = NextFireAfter(day)
    /\ UNCHANGED <<day, notExpiryVars>>

\* The rule fires and every attempt fails: the installed files stay.
RefreshFails ==
    /\ day = nextRefresh
    /\ failStreak' = failStreak + 1
    /\ nextRefresh' = NextFireAfter(day)
    /\ UNCHANGED <<day, certDay, notExpiryVars>>

ExpiryDayPasses ==
    /\ day < nextRefresh
    /\ day < MaxExpiryDays
    /\ day' = day + 1
    /\ UNCHANGED <<certDay, failStreak, nextRefresh, notExpiryVars>>

InitExpiry ==
    /\ InitRefresh
    /\ InitSys
    /\ IdleTls
    /\ IdleExceptExpiry

NextExpiry ==
    \/ RefreshSucceeds
    \/ RefreshFails
    \/ ExpiryDayPasses

SpecExpiry == InitExpiry /\ [][NextExpiry]_vars

(***************************************************************************)
(* Part 8: start of the containers inside a task of the OpenMRS service    *)
(***************************************************************************)

MaxTasks == 3

TaskIds == 1 .. MaxTasks

Containers == {"openmrsbackend", "openmrsfrontend", "openmrsgateway"}

DependsOnWithoutBackendEdge(c) ==
    IF c = "openmrsgateway" THEN {"openmrsfrontend"} ELSE {}

\* add_container_dependencies: the containers c waits for, all with the
\* condition HEALTHY.
DependsOn(c) ==
    CASE c = "openmrsfrontend" -> {"openmrsbackend"}
      [] c = "openmrsgateway" -> {"openmrsfrontend"}
      [] OTHER -> {}

\* Containers c waits for, directly or through others.
RECURSIVE Reach(_, _)
Reach(cs, n) ==
    IF n = 0 THEN cs
    ELSE Reach(cs \cup UNION {DependsOn(d) : d \in cs}, n - 1)

Ancestors(c) == Reach(DependsOn(c), Cardinality(Containers))

HealthyIn(t) == {c \in Containers : cont[t][c] = "healthy"}

InitTasks ==
    /\ cont = [t \in TaskIds |-> [c \in Containers |-> "pending"]]
    /\ started = [t \in TaskIds |-> <<>>]
    /\ healthyAtStart = [t \in TaskIds |-> [c \in Containers |-> {}]]

\* The agent starts a container whose dependencies are all healthy.
StartContainer(t, c) ==
    /\ cont[t][c] = "pending"
    /\ DependsOn(c) \subseteq HealthyIn(t)
    /\ cont' = [cont EXCEPT ![t][c] = "running"]
    /\ started' = [started EXCEPT ![t] = Append(@, c)]
    /\ healthyAtStart' = [healthyAtStart EXCEPT ![t][c] = HealthyIn(t)]
    /\ UNCHANGED notTaskVars

\* The health check of a running container passes.
BecomesHealthy(t, c) ==
    /\ cont[t][c] = "running"
    /\ cont' = [cont EXCEPT ![t][c] = "healthy"]
    /\ UNCHANGED <<started, healthyAtStart, notTaskVars>>

\* An essential container stops: the task stops with all its containers.
TaskStops(t) ==
    /\ \E c \in Containers : cont[t][c] \in {"running", "healthy"}
    /\ cont' = [cont EXCEPT ![t] = [c \in Containers |-> "stopped"]]
    /\ UNCHANGED <<started, healthyAtStart, notTaskVars>>

InitTask ==
    /\ InitTasks
    /\ InitSys
    /\ IdleTls
    /\ IdleExceptTask

NextTask ==
    \E t \in TaskIds :
        \/ \E c \in Containers : StartContainer(t, c)
        \/ \E c \in Containers : BecomesHealthy(t, c)
        \/ TaskStops(t)

SpecTask == InitTask /\ [][NextTask]_vars

(***************************************************************************)
(* Part 9: what the functions that start tasks are allowed to do           *)
(***************************************************************************)

\* Functions with ECS_CLUSTER and TASK_DEFINITION in their environment.
JobRunnerFns == Fns \cup {"EFStoS3ExportLambda"}

\* ECS actions allowed to the role of a function on the cluster of the
\* stack: grant_run of its task definition, and the policy statement added
\* with add_to_role_policy.
Granted(f) ==
    CASE f \in Fns -> {"ecs:RunTask", "ecs:DescribeTasks"}
      [] f = "EFStoS3ExportLambda" -> {"ecs:RunTask"}
      [] OTHER -> {}

(***************************************************************************)
(* Claims about the TLS generation job (checked under SpecTls)             *)
(***************************************************************************)

OnlyRun(r) == \A q \in RunIds : q # r => run[q].pc = "idle"

\* C1: while one TLS generation job runs, cert.pem and privkey.pem read from
\* the volume always come from the same generation (both still of the
\* previous run, or both already of the new one).
C1_PairSwappedAtomically ==
    \A r \in RunIds :
        (/\ run[r].pc \in Active
         /\ OnlyRun(r)
         /\ vol["cert.pem"] # Absent
         /\ vol["privkey.pem"] # Absent) =>
            vol["cert.pem"].gen = vol["privkey.pem"].gen

AllFromRun(v, r) == \A f \in FinalFiles : v[f].gen = r /\ v[f].ok

\* C2: after a run has ended, in success or in failure at any step, the three
\* final files are all as before the run or all produced by the run.
C2_AllOldOrAllNew ==
    \A r \in RunIds :
        (run[r].pc \in Ended /\ OnlyRun(r)) =>
            (Finals(vol) = before[r] \/ AllFromRun(vol, r))

\* C3: when the executions have run interleaved and none was stopped by its
\* environment, all of them finish without error and cert.pem / privkey.pem
\* are the matching pair of the one run that renamed last.
C3_ConcurrentRunsSafe ==
    ((\A r \in RunIds : run[r].pc \in Ended /\ ~run[r].fault)) =>
        /\ \A r \in RunIds : run[r].pc = "done"
        /\ \E w \in RunIds :
              /\ vol["privkey.pem"] = KeyOf(w)
              /\ vol["cert.pem"] = CertOf(w, w)
              /\ lastMv["privkey.pem"] = w
              /\ lastMv["cert.pem"] = w

(***************************************************************************)
(* Claims about provisioning, schedule and invocations (checked under Spec)*)
(***************************************************************************)

SeedFn == "OneTimeEFSDataSetup"

TlsFns == {"OneTimeSSLSetup", ScheduledFn}

SslVolume == "EfsFileSystemForSslFolder"

\* C4: creation of the service is requested only after the one-time seed
\* invocation has succeeded.
C4_ServiceAfterSeed ==
    res[Service] # "pending" => inv[SeedFn].outcome = "succeeded"

\* C5: creation of the service is requested only after the one-time TLS
\* invocation has been observed as succeeded; when it failed or timed out the
\* service is never created and provisioning does not complete.
C5_ServiceAfterTlsSetup ==
    /\ res[Service] # "pending" =>
          /\ inv["OneTimeSSLSetup"].outcome = "succeeded"
          /\ res["OneTimeSSLSetup"] = "created"
    /\ inv["OneTimeSSLSetup"].outcome = "failed" =>
          /\ res[Service] = "pending"
          /\ prov # "complete"

C5_Witness ==
    /\ res[Service] = "created"
    /\ inv["OneTimeSSLSetup"].outcome = "succeeded"

FiresOnPeriod ==
    /\ sched.fireCount >= 1 => sched.gap = 2
    /\ sched.lastFire = 2 * sched.fireCount
    /\ (prov = "complete" /\ res[Rule] = "created") => now <= sched.lastFire + 2

Returned(f) == inv[f].outcome \in {"succeeded", "failed"} /\ inv[f].job # 0

\* C7 as stated: a TLS generation invocation has ended only when its job has
\* stopped, and it reports success exactly when the exit code is 0.
C7_ReturnsAfterTerminal ==
    \A f \in TlsFns :
        Returned(f) =>
            /\ job[inv[f].job].st = "STOPPED"
            /\ inv[f].outcome = "succeeded" <=> job[inv[f].job].exit = 0

\* C7 amended: a TLS generation invocation that ends before its timeout has
\* ended only when its job has stopped, and reports success exactly when the
\* exit code is 0; one that reaches the timeout reports failure, whatever its
\* job does; a failure is never reported as success.
C7_ReturnsAfterTerminalOrTimeout ==
    \A f \in TlsFns :
        /\ (Returned(f) /\ ~inv[f].timedOut) =>
              /\ job[inv[f].job].st = "STOPPED"
              /\ inv[f].outcome = "succeeded" <=> job[inv[f].job].exit = 0
        /\ inv[f].timedOut => inv[f].outcome = "failed"
        /\ inv[f].outcome = "succeeded" =>
              /\ inv[f].job # 0
              /\ job[inv[f].job].st = "STOPPED"
              /\ job[inv[f].job].exit = 0

C7_Witness ==
    /\ inv["OneTimeSSLSetup"].outcome = "succeeded"
    /\ inv[ScheduledFn].outcome = "failed"
    /\ ~inv[ScheduledFn].timedOut
    /\ inv[ScheduledFn].job # 0
    /\ job[inv[ScheduledFn].job].exit = 1

StartedTaskDefs ==
    {job[j].td : j \in {k \in JobIds : job[k].st # "none"}}
        \cup (IF res[Service] \in {"requested", "created"}
                THEN {"OpenMRSFargateTaskDefinition"} ELSE {})

OnlyTlsJobWritesTlsPath ==
    \A td \in StartedTaskDefs :
        WritesVolume(td, SslVolume) => td = "CreateSSLMaterialsTaskDefinition"

RunningTlsWriters ==
    {j \in JobIds : job[j].st = "RUNNING" /\ WritesVolume(job[j].td, SslVolume)}

\* C9 as stated: no two job executions that write to the TLS path run at the
\* same time, and nothing but the TLS generation job writes there.
C9_NoConcurrentTlsWriters ==
    /\ Cardinality(RunningTlsWriters) <= 1
    /\ OnlyTlsJobWritesTlsPath

\* C9 amended: the command of the TLS generation job is the only one that
\* writes to the TLS path (executions of that job may run at the same time).
C9_OnlyTlsJobWritesTlsPath == OnlyTlsJobWritesTlsPath

C9_Witness ==
    /\ Cardinality(RunningTlsWriters) >= 2
    /\ res[Service] = "created"
    /\ "WriteOpenMRSDatatoDataEFSTask" \in StartedTaskDefs

\* C10: the seed function is invoked once per deployment, by its one-time
\* trigger, and never by the recurring schedule.
C10_SeedInvokedOnce ==
    /\ invoked[SeedFn]["scheduled"] = 0
    /\ invoked[SeedFn]["one_time"] <= 1
    /\ prov = "complete" => invoked[SeedFn]["one_time"] = 1
    /\ inv[SeedFn].kind # "scheduled"
    /\ Cardinality({j \in JobIds : job[j].td = "WriteOpenMRSDatatoDataEFSTask"}) <= 1

C10_Witness ==
    /\ prov = "complete"
    /\ sched.fireCount >= 2
    /\ invoked[SeedFn]["one_time"] = 1

(***************************************************************************)
(* Claims about the seed job (checked under SpecSeed)                      *)
(***************************************************************************)

SeedsDone == {i \in SeedRunIds : seedRun[i].pc = "done"}

SeedsRunning == {i \in SeedRunIds : seedRun[i].pc = "copying"}

\* C11: when the seed job has completed a second time on the same image, the
\* data volume holds exactly what it held when the job completed the first
\* time.
C11_SeedTwiceEqualsOnce ==
    (Cardinality(SeedsDone) >= 2 /\ SeedsRunning = {}) =>
        dataVol = afterFirst

\* Two completed executions on a volume that held files written at run time,
\* at a path of the image and at a path the image does not have.
C11_Witness ==
    /\ Cardinality(SeedsDone) >= 2
    /\ SeedsRunning = {}
    /\ dataVol[0] = RuntimeContent(0)
    /\ \A p \in ImagePaths : dataVol[p] = ImageContent(p)

(***************************************************************************)
(* Claims about the mail set-up (checked under SpecMail)                   *)
(***************************************************************************)

\* C12: a call of make_ruleset_active that names a rule set which does not
\* exist ends in failure, and the rule set that was active before the call
\* is the active one after it.
C12_UnknownRuleSetFailsAndKeepsActive ==
    (lastCall # NoCall /\ ~lastCall.existed) =>
        (~lastCall.ok /\ lastCall.after = lastCall.before)

\* A rule set was active and the call named a rule set that does not exist.
C12_Witness ==
    /\ lastCall # NoCall
    /\ ~lastCall.existed
    /\ lastCall.before = "RuleSet"
    /\ activeRuleSet = "RuleSet"

\* C13: after generate_smtp_credential has run twice, with two different
\* access keys, the entry smtp-secret is exactly the value computed from the
\* second key: one field, nothing of the first value.
C13_SecondWriteReplacesEntry ==
    (Len(smtpWrites) >= 2 /\
     smtpWrites[Len(smtpWrites)] # smtpWrites[Len(smtpWrites) - 1]) =>
        smtpSecret = {<<"password", Derive(smtpWrites[Len(smtpWrites)])>>}

\* Two runs, the first with key 1 and the second with key 2.
C13_Witness ==
    /\ Len(smtpWrites) = 2
    /\ smtpWrites[1] = 1
    /\ smtpWrites[2] = 2
    /\ smtpSecret = {<<"password", Derive(2)>>}

(***************************************************************************)
(* Claims about the export functions (checked under SpecExport)            *)
(***************************************************************************)

FailureReturned(f) ==
    (req[f].phase = "ended" /\ ~req[f].ok) => req[f].returned = "error"

ServiceStepDone ==
    /\ pc <= Len(BuildSteps) + 1
    /\ \E i \in 1 .. (pc - 1) : BuildSteps[i] = "_create_openmrs_service"

\* C15: once the service step has run, every named parameter the stack has
\* created is among those given to the container definition of the service.
C15_CreatedParametersArePassed ==
    ServiceStepDone => params \subseteq passed

\* C16: for every combination of the context flags, no construction step
\* reads a component handle that no earlier step has set.
C16_StepsReadOnlySetHandles ==
    raised = NotRaised

(***************************************************************************)
(* Further claims about the TLS generation job (checked under SpecTls)     *)
(***************************************************************************)

\* Positions at which an execution has written a temporary file and has not
\* renamed it yet.
Holding(f) ==
    CASE f = "selfsigned.key.pem.tmp" -> {"req", "curl", "mv_cert", "mv_key"}
      [] f = "selfsigned.cert.pem.tmp" -> {"curl", "mv_cert"}
      [] OTHER -> {"mv_cert", "mv_key", "mv_mysql"}

\* C17: the temporary files of a run are its own: while a run is between
\* writing a temporary file and renaming it, the file under that name is the
\* one this run wrote, whatever other runs do at the same time.
C17_TemporaryFilesArePerRun ==
    \A r \in RunIds : \A f \in TmpFiles :
        run[r].pc \in Holding(f) => vol[f].gen = r

AllFinalsExist == \A f \in FinalFiles : vol[f] # Absent

\* C18: once a run has completed, cert.pem, privkey.pem and mysql.pem all
\* exist under their final names, whatever the other runs do or have done.
C18_MaterialNeverAbsentAgain ==
    (\E r \in RunIds : run[r].pc = "done") => AllFinalsExist

\* The volume was empty, the first run completed and a later run failed.
C18_Witness ==
    /\ run[1].pc = "done"
    /\ before[1] = Finals(EmptyVolume)
    /\ \E r \in RunIds : run[r].pc = "failed" /\ run[r].fault
    /\ AllFinalsExist

(***************************************************************************)
(* Claims about refresh and expiry (checked under SpecExpiry)              *)
(***************************************************************************)

\* C19: the period of the refresh is shorter than the validity of the
\* certificate, the installed certificate is not expired while no refresh
\* has failed since it was installed, and when it is expired at least 182
\* refreshes in a row have failed.
C19_ExpiredOnlyAfter182Failures ==
    /\ number_of_days_to_regenerate_ssl_materials < CertificateValidityDays
    /\ Expired(day - certDay) => failStreak >= 182
    /\ failStreak = 0 => ~Expired(day - certDay)

\* The certificate of the first day has expired after exactly 182 failed
\* refreshes.
C19_Witness ==
    /\ certDay = 0
    /\ Expired(day - certDay)
    /\ failStreak = 182

(***************************************************************************)
(* Claims about the containers of a task (checked under SpecTask)          *)
(***************************************************************************)

StartOrder == <<"openmrsbackend", "openmrsfrontend", "openmrsgateway">>

HasStarted(t, c) == \E i \in 1 .. Len(started[t]) : started[t][i] = c

\* C20: in every task the containers start in the order backend, frontend,
\* gateway; the backend was healthy when the frontend was started and the
\* frontend was healthy when the gateway was started; no container waits
\* for itself, directly or through others.
C20_ContainersStartInOrder ==
    /\ \A t \in TaskIds :
          /\ started[t] = SubSeq(StartOrder, 1, Len(started[t]))
          /\ HasStarted(t, "openmrsfrontend") =>
                "openmrsbackend" \in healthyAtStart[t]["openmrsfrontend"]
          /\ HasStarted(t, "openmrsgateway") =>
                "openmrsfrontend" \in healthyAtStart[t]["openmrsgateway"]
    /\ \A c \in Containers : c \notin Ancestors(c)

\* A task in which all three containers have been started.
C20_Witness ==
    \E t \in TaskIds :
        /\ started[t] = StartOrder
        /\ cont[t]["openmrsgateway"] = "healthy"

(***************************************************************************)
(* Further claims about provisioning (checked under Spec)                  *)
(***************************************************************************)

JobsStarted == {j \in JobIds : job[j].st # "none"}

\* C21: when the ECS cluster exists, when the creation of the service has
\* been requested and when a job has been started on the cluster, the
\* database cluster has been created.
C21_DatabaseBeforeCluster ==
    (\/ res["ecs-cluster"] = "created"
     \/ res[Service] # "pending"
     \/ JobsStarted # {}) =>
        res["DatabaseCluster"] = "created"

\* Both one-time jobs have been started and the service has been requested.
C21_Witness ==
    /\ res["ecs-cluster"] = "created"
    /\ res[Service] = "requested"
    /\ \E j \in JobIds : job[j].td = "WriteOpenMRSDatatoDataEFSTask"
    /\ \E j \in JobIds : job[j].td = "CreateSSLMaterialsTaskDefinition"

(***************************************************************************)
(* Further claims about the data volume (checked under SpecSeed)           *)
(***************************************************************************)

\* C22: the task of the EFS to S3 sync job mounts the data volume read-only,
\* and no step of the job, whatever it attempts and however it ends, changes
\* the content of the data volume.
C22_SyncLeavesDataVolumeUnchanged ==
    /\ [](DataMount("SyncEFStoS3Task").readOnly)
    /\ [][SyncStep => dataVol' = dataVol]_vars

\* The job has attempted to change files and has ended in failure.
C22_Witness ==
    /\ syncRun.pc = "failed"
    /\ syncRun.attempted
    /\ \E p \in DataPaths : dataVol[p] # NoFile

\* C23: the seed job changes nothing but paths of the image's data
\* directory, which then hold the image's content; every other path holds
\* what it held before, and no file that existed is gone.
C23_SeedTouchesOnlyImagePaths ==
    \A p \in DataPaths :
        /\ \/ dataVol[p] = initialVol[p]
           \/ p \in ImagePaths /\ dataVol[p] = ImageContent(p)
        /\ initialVol[p] # NoFile => dataVol[p] # NoFile

\* A completed run on a volume that held files of its own at every path.
C23_Witness ==
    /\ \E i \in SeedRunIds : seedRun[i].pc = "done"
    /\ \A p \in DataPaths : initialVol[p] = RuntimeContent(p)
    /\ dataVol[0] = RuntimeContent(0)
    /\ \A p \in ImagePaths : dataVol[p] = ImageContent(p)

(***************************************************************************)
(* Further claims about the mail set-up (checked under SpecMail)           *)
(***************************************************************************)

C25_StartAndPollGranted ==
    /\ \A f \in Fns : {"ecs:RunTask", "ecs:DescribeTasks"} \subseteq Granted(f)
    /\ \A f \in JobRunnerFns \ Fns :
          req[f].jobs > 0 =>
              {"ecs:RunTask", "ecs:DescribeTasks"} \subseteq Granted(f)

(***************************************************************************)
(* Claims about the network front (checked under SpecBuild)                *)
(***************************************************************************)

StepDone(step) == \E i \in 1 .. (pc - 1) : BuildSteps[i] = step

ConfiguredRanges ==
    {r \in {"security_group_ip_range_ipv4", "security_group_ip_range_ipv6"} :
        flags[r]}

\* C26: once the security groups are built, every ingress rule of the load
\* balancer's group has a configured range as its peer and port 443 when
\* certificate_arn or route53_domain is set, port 80 otherwise; there is a
\* rule for every configured range and none when no range is configured.
C26_IngressMatchesFlags ==
    StepDone("_create_security_groups") =>
        /\ \A rule \in cfg.ingress :
              /\ rule.peer \in ConfiguredRanges
              /\ rule.port = IF flags["certificate_arn"] \/ flags["route53_domain"]
                             THEN 443 ELSE 80
        /\ {rule.peer : rule \in cfg.ingress} = ConfiguredRanges
        /\ Cardinality({rule.port : rule \in cfg.ingress}) <= 1

\* Both ranges are configured and only route53_domain selects HTTPS.
C26_Witness ==
    /\ StepDone("_create_security_groups")
    /\ flags["route53_domain"] /\ ~flags["certificate_arn"]
    /\ Cardinality(cfg.ingress) = 2

\* C27: with the global accelerator enabled, the port of its listener is the
\* port of the ingress rules of the load balancer's group, and the scheme of
\* GlobalAcceleratorUrl is https for 443 and http for 80.
C27_AcceleratorAgreesWithIngress ==
    (StepDone("_create_alb") /\ flags["enable_global_accelerator"]) =>
        /\ cfg.gaPort \in {80, 443}
        /\ \A rule \in cfg.ingress : rule.port = cfg.gaPort
        /\ cfg.gaScheme = IF cfg.gaPort = 443 THEN "https" ELSE "http"
        /\ cfg.gaPort = 443 <=> (flags["certificate_arn"] \/ flags["route53_domain"])

\* The accelerator listens on 443 and a range is admitted on 443.
C27_Witness ==
    /\ StepDone("_create_alb")
    /\ flags["enable_global_accelerator"]
    /\ cfg.gaPort = 443
    /\ cfg.gaScheme = "https"
    /\ cfg.ingress # {}

\* C28: the listener of the service has the certificate of certificate_arn
\* whenever certificate_arn is set, the certificate the stack issues when
\* only route53_domain is set, and none when neither is set; it never takes
\* a certificate that no step has set.
C28_ListenerCertificate ==
    StepDone("_create_openmrs_service") =>
        /\ cfg.listener # "unset"
        /\ cfg.listener =
              IF flags["certificate_arn"] THEN "user"
              ELSE IF flags["route53_domain"] THEN "issued"
              ELSE "none"

\* Both certificate_arn and route53_domain are set.
C28_Witness ==
    /\ StepDone("_create_openmrs_service")
    /\ flags["certificate_arn"] /\ flags["route53_domain"]
    /\ cfg.listener = "user"

Position(log, a) == CHOOSE i \in 1 .. Len(log) : log[i] = a

Ran(log, a) == \E i \in 1 .. Len(log) : log[i] = a

\* C29: the rule set has the one rule ForwardingRule, for help@<domain>;
\* every message the rule has been run on to the end was stored in the
\* bucket, was handed to the forwarding function exactly when
\* email_forwarding_address is configured, and was stored before it was
\* handed over.
C29_StoredThenForwarded ==
    /\ {[name |-> rule.name, recipients |-> rule.recipients] :
           rule \in ReceiptRules(forwardingAddress)} =
       {[name |-> "ForwardingRule", recipients |-> {"help@route53_domain"}]}
    /\ \A n \in 1 .. Len(received) :
          /\ Ran(received[n].log, "Lambda") =>
                /\ Ran(received[n].log, "S3")
                /\ Position(received[n].log, "S3") <
                       Position(received[n].log, "Lambda")
          /\ received[n].complete =>
                /\ Ran(received[n].log, "S3")
                /\ Ran(received[n].log, "Lambda") <=> forwardingAddress

\* Two messages were stored and handed to the forwarding function.
C29_Witness ==
    /\ forwardingAddress
    /\ Len(received) = 2
    /\ \A n \in 1 .. 2 :
          received[n].complete /\ received[n].log = <<"S3", "Lambda">>

====
